---- MODULE Spec2Model ----
(***************************************************************************)
(* Model of static/api_import_common.js: the configurable API import       *)
(* pipeline (preview fetch, mapping editor, import commit).                *)
(*                                                                         *)
(* JavaScript values are represented as follows.                           *)
(*   - a nullable module variable is an option: None = <<>> is null or     *)
(*     undefined, Some(v) = <<v>> is the value v;                          *)
(*   - an object is a function whose DOMAIN is its set of own keys;        *)
(*   - an array is a sequence;                                             *)
(*   - a mapping value is a string, the empty string "" or null (the       *)
(*     string NullVal, which is never a source field name).                *)
(* All awaits of one handler that have no state access between them are    *)
(* one step: a handler is split only where the event loop can interleave   *)
(* another handler (at the await of fetch).                                *)
(***************************************************************************)
EXTENDS Integers, Sequences, FiniteSets, TLC

VARIABLES
  config,                  \* let config (merged DEFAULT_CONFIG + customConfig)
  apiData,                 \* let apiData      (option of array of raw rows)
  mappingData,             \* let mappingData  (option of mapping object)
  previewData,             \* let previewData  (option of array of mapped rows)
  form,                    \* #apiImportForm input values
  mappingForm,             \* selects built inside #mappingFormFields
  previewModal,            \* let previewModal: "null", "hidden" or "shown"
  editMappingModal,        \* let editMappingModal: "null", "hidden" or "shown"
  previewLoading,          \* #previewLoading display = block
  previewError,            \* #previewError: option of the message shown
  previewContent,          \* #previewContent display = block
  rendered,                \* what displayPreview wrote last (option)
  btnConfirmImportDisabled,\* btnConfirmImport.disabled
  previewReqs,             \* preview fetches in flight
  importReqs,              \* import fetches in flight
  location,                \* window.location.href assignment (option)
  nextId,                  \* number of requests issued so far (history)
  importsIssued,           \* number of import requests issued (history)
  sessionFrom,             \* id of the preview request whose response wrote
                           \* the session last, 0 if none (history)
  mappingSavedAt,          \* number of preview requests issued when the
                           \* mapping was last saved from the open mapping
                           \* editor, 0 if never (history)
  remapRuns,               \* times in a row reprocessPreviewWithMapping ran
                           \* on the present rawRows and mapping (history)
  sessionSource,           \* api_url of the preview request whose response
                           \* wrote the session last, None if none (history)
  sessionOk,               \* the response that wrote the session last was
                           \* handled without an error (history)
  dialog,                  \* the last alert() or confirm() shown
  clickIgnored,            \* a click on the disabled btnConfirmImport was
                           \* dropped (history)
  events,                  \* number of clicks and form edits so far (history)
  allConfigs,              \* let allConfigs: the saved configurations listed
  configsTable,            \* the manage-configs table: what is displayed and
                           \* the rows of configsTableBody
  manageConfigsModal,      \* let manageConfigsModal: "null", "hidden" or "shown"
  configToDelete,          \* let configToDelete (None when null)
  deleteConfigContent,     \* the texts of the delete confirmation modal
  deleteConfigModalShown,  \* deleteConfigModal is shown
  btnConfirmDeleteDisabled,\* btnConfirmDelete.disabled
  storeReqs,               \* requests to /api/configs in flight
  db,                      \* the backend's configuration collection
  nextDbId,                \* the id the backend gives the next new record
  storeIssued,             \* number of /api/configs requests issued (history)
  saveLog,                 \* the form values and key of every save request
                           \* sent (history)
  deleted,                 \* ids whose DELETE was answered with success
                           \* (history)
  listFailed,              \* a list request failed (history)
  storeEvents,             \* number of operator events on the
                           \* saved-configuration controls (history)
  viewConfigContent,       \* the texts of viewConfigContent (None when empty)
  viewConfigModalShown     \* viewConfigModal is shown

vars == <<config, apiData, mappingData, previewData, form, mappingForm,
          previewModal, editMappingModal, previewLoading,
          previewError, previewContent, rendered, btnConfirmImportDisabled,
          previewReqs, importReqs, location, nextId, importsIssued,
          sessionFrom, mappingSavedAt, remapRuns, sessionSource, sessionOk,
          dialog,
          clickIgnored,
          events,
          allConfigs, configsTable, manageConfigsModal, configToDelete,
          deleteConfigContent, deleteConfigModalShown,
          btnConfirmDeleteDisabled, storeReqs, db, nextDbId, storeIssued,
          saveLog, deleted, listFailed, storeEvents, viewConfigContent,
          viewConfigModalShown>>

\* The view-config modal.
viewVars == <<viewConfigContent, viewConfigModalShown>>

\* The state of the Saved Configuration Store and of its backend.
storeVars == <<allConfigs, configsTable, manageConfigsModal,
               configToDelete, deleteConfigContent, deleteConfigModalShown,
               btnConfirmDeleteDisabled, storeReqs, db, nextDbId, storeIssued,
               saveLog, deleted, listFailed, storeEvents, viewConfigContent,
               viewConfigModalShown>>

\* The state of the import session, its modals and its requests.
importVars == <<apiData, mappingData, previewData, mappingForm, previewModal,
                editMappingModal, previewLoading, previewError,
                previewContent, rendered, btnConfirmImportDisabled,
                previewReqs, importReqs, location, nextId, importsIssued,
                sessionFrom, mappingSavedAt, remapRuns, sessionSource,
                sessionOk,
                clickIgnored,
                events>>

session == <<apiData, mappingData, previewData>>

----------------------------------------------------------------------------
(* Bounds *)

MaxEvents == 4        \* clicks and form edits of the operator in one behaviour
MaxPreviews == 2      \* preview requests issued in one behaviour
MaxImports == 2       \* import requests issued in one behaviour
MaxShortRows == 2     \* length of the freely chosen raw-row sequences
MaxLongRows == 11     \* length of the patterned raw-row sequences
MaxStoreEvents == 4   \* clicks on the controls of the manage-configs modal
MaxFormEvents == 2    \* edits of the connection form, saves and selections
MaxClock == 2         \* values the wall clock can read
MaxFrameEvents == 2   \* clicks of the operator on a page with a session
MaxMapEvents == 3     \* clicks of the operator on the sessions of the engine
MaxPageEvents == 3    \* clicks of the operator with every control in use

----------------------------------------------------------------------------
(* JavaScript values *)

None == <<>>
Some(v) == <<v>>
IsSome(o) == o /= None
Val(o) == o[1]

NullVal == "null"
Truthy(v) == v /= NullVal /\ v /= ""
OrNull(v) == IF Truthy(v) THEN v ELSE NullVal

Take(s, n) == [i \in 1..(IF Len(s) < n THEN Len(s) ELSE n) |-> s[i]]

PreviewSize == 10

----------------------------------------------------------------------------
(* Configuration *)

DEFAULT_CONFIG ==
  [moduleType |-> "orders",
   apiEndpoint |-> "/import/orders/api",
   displayFields |-> <<"order_id", "sku", "item_name", "qty">>,
   wmsFields |-> <<"order_id", "sku", "item_name", "qty", "order_time",
                   "shop_name", "logistic_type">>,
   requirePlatform |-> TRUE,
   requireShopName |-> FALSE,
   redirectUrl |-> NullVal]

\* The customConfig objects the host page passes to init().
CustomConfig(platform, shopName, redirect) ==
  [displayFields |-> <<"order_id", "qty">>,
   wmsFields |-> <<"order_id", "qty">>,
   requirePlatform |-> platform,
   requireShopName |-> shopName,
   redirectUrl |-> redirect]

CustomConfigs ==
  {CustomConfig(TRUE, FALSE, NullVal),
   CustomConfig(FALSE, TRUE, "/import/done")}

\* { ...DEFAULT_CONFIG, ...customConfig }
MergeConfig(custom) ==
  [k \in DOMAIN DEFAULT_CONFIG |->
     IF k \in DOMAIN custom THEN custom[k] ELSE DEFAULT_CONFIG[k]]

WmsKeys(cfg) == {cfg.wmsFields[i] : i \in 1..Len(cfg.wmsFields)}

----------------------------------------------------------------------------
(* Raw rows and mappings *)

Digits == <<"1", "2", "3", "4", "5", "6", "7", "8", "9", "10", "11", "12",
            "13", "14">>

Row(orderNo, qty) == ("Order No" :> orderNo) @@ ("Qty" :> qty)
RowNoQty(orderNo) == ("Order No" :> orderNo)

RowsScenario == <<Row("1", "2")>>
RowsLong == [i \in 1..MaxLongRows |-> Row(Digits[i], "2")]

MappingFull == ("order_id" :> "Order No") @@ ("qty" :> "Qty")
MappingNone == ("order_id" :> NullVal) @@ ("qty" :> NullVal)
\* A suggested mapping over other keys than the module's wmsFields.
MappingOtherKeys == ("order_id" :> "Order No") @@ ("sku" :> "Sku")

\* The Mapping Engine of section 4.2, as the backend applies it to build the
\* preview of a response.
ApplyMapping(rows, m) ==
  [i \in 1..Len(rows) |->
     [k \in {kk \in DOMAIN m : Truthy(m[kk]) /\ m[kk] \in DOMAIN rows[i]}
        |-> rows[i][m[k]]]]

\* A 2xx body of POST {base}/preview (section 6).
PreviewResult(rows, m) ==
  [data |-> Some(rows),
   mapping |-> Some(m),
   preview |-> Some(Take(ApplyMapping(rows, m), PreviewSize)),
   total_rows |-> Len(rows),
   from_cache |-> FALSE]

\* A 2xx body without preview rows.
PreviewResultNoPreview(rows, m) ==
  [data |-> Some(rows),
   mapping |-> Some(m),
   preview |-> None,
   total_rows |-> Len(rows),
   from_cache |-> FALSE]

\* A 2xx body whose mapping is null.
PreviewResultNoMapping(rows) ==
  [data |-> Some(rows),
   mapping |-> None,
   preview |-> Some(<<>>),
   total_rows |-> Len(rows),
   from_cache |-> FALSE]

PreviewResults ==
  {PreviewResult(<<>>, MappingNone),
   PreviewResult(RowsLong, MappingOtherKeys),
   PreviewResultNoPreview(RowsScenario, MappingFull),
   PreviewResultNoMapping(RowsScenario)}

\* What settles a preview fetch: fetch() rejects, a non-2xx status with an
\* error text, or a 2xx body.
PreviewOutcomes ==
  {[kind |-> "network"],
   [kind |-> "notok", error |-> "source unreachable"]}
  \cup {[kind |-> "ok", result |-> r] : r \in PreviewResults}

\* What resolves an import fetch.
ImportOutcomes ==
  {[kind |-> "network"],
   [kind |-> "notok", error |-> ""],
   [kind |-> "ok", imported |-> 1, import_date |-> "2025-01-31"],
   [kind |-> "ok", imported |-> 2, import_date |-> NullVal]}

\* error.message in the catch block of a fetch handler.
ErrorMessage(outcome, default) ==
  CASE outcome.kind = "network" -> "Failed to fetch"
    [] outcome.kind = "notok" ->
         IF Truthy(outcome.error) THEN outcome.error ELSE default
    [] OTHER -> "TypeError"

----------------------------------------------------------------------------
(* Form values *)

FormValue(url, platform, shopName) ==
  [apiUrl |-> url, dataPath |-> "", apiKey |-> "",
   apiPlatform |-> platform, apiShopName |-> shopName]

EmptyForm == FormValue("", "", "")

\* The form contents the page is rendered with or the operator types.
FormValues ==
  {EmptyForm,
   FormValue("https://src/orders", "shopee", "shopA")}

FormData(f, useCache) ==
  [api_url |-> f.apiUrl, data_path |-> f.dataPath, api_key |-> f.apiKey,
   platform |-> f.apiPlatform, shop_name |-> f.apiShopName,
   use_cache |-> useCache]

\* An alert(text) or a confirm(text) naming n records and its answer.
Event(op, out, n) == [op |-> op, out |-> out, n |-> n]

----------------------------------------------------------------------------
(* Mapping Engine, as written in reprocessPreviewWithMapping and again in
   handleConfirmImport *)

\* if (apiField && row.hasOwnProperty(apiField)) mapped[wmsField] = row[apiField]
MappedKeys(row, m) ==
  {k \in DOMAIN m : Truthy(m[k]) /\ m[k] \in DOMAIN row}

\* The arrow function of apiData.map in reprocessPreviewWithMapping.
PreviewMapRow_sentinel(row, m) ==
  [k \in {kk \in DOMAIN m : Truthy(m[kk])} |->
     IF m[k] \in DOMAIN row THEN row[m[k]] ELSE ""]
PreviewMapRow(row, m) == [k \in MappedKeys(row, m) |-> row[m[k]]]

\* reprocessPreviewWithMapping: the new value of previewData.
reprocessPreviewWithMapping_stale(api, m, prev) == prev
reprocessPreviewWithMapping_dropEmpty(api, m, prev) ==
  IF ~IsSome(api) \/ ~IsSome(m) THEN prev
  ELSE Some(SelectSeq([i \in 1..Len(Val(api)) |->
                         PreviewMapRow(Val(api)[i], Val(m))],
                      LAMBDA r : r /= <<>>))
reprocessPreviewWithMapping_accumulate(api, m, prev) ==
  IF ~IsSome(api) \/ ~IsSome(m) THEN prev
  ELSE Some((IF IsSome(prev) THEN Val(prev) ELSE <<>>)
            \o [i \in 1..Len(Val(api)) |-> PreviewMapRow(Val(api)[i], Val(m))])
reprocessPreviewWithMapping(api, m, prev) ==
  IF ~IsSome(api) \/ ~IsSome(m) THEN prev
  ELSE Some([i \in 1..Len(Val(api)) |-> PreviewMapRow(Val(api)[i], Val(m))])

\* The arrow function of apiData.map in handleConfirmImport.
ImportMapRow_unchecked(row, m) ==
  [k \in {kk \in DOMAIN m : Truthy(m[kk])} |->
     IF m[k] \in DOMAIN row THEN row[m[k]] ELSE NullVal]
ImportMapRow(row, m) ==
  [k \in {kk \in DOMAIN m : Truthy(m[kk]) /\ m[kk] \in DOMAIN row}
     |-> row[m[k]]]

\* const fullMappedData = apiData.map(...)
FullMappedData_preview(rows, m) ==
  [i \in 1..Len(Take(rows, PreviewSize)) |-> ImportMapRow(rows[i], m)]
FullMappedData(rows, m) == [i \in 1..Len(rows) |-> ImportMapRow(rows[i], m)]

----------------------------------------------------------------------------
(* displayPreview *)

\* td.textContent = row[field] || '-'
Cell(row, field) ==
  IF field \in DOMAIN row /\ Truthy(row[field]) THEN row[field] ELSE "-"

\* mappingInfo.innerHTML: one badge pair per mapped field.
MappingInfo(m) == {<<m[k], k>> : k \in {kk \in DOMAIN m : Truthy(m[kk])}}

\* What displayPreview(result) writes: the mapping badges, the table body
\* (first 10 rows of result.preview, one cell per display field) and the
\* summary line.
DisplayPreview(cfg, m, preview, total, fromCache) ==
  [mappingInfo |-> MappingInfo(m),
   tableBody |-> [i \in 1..Len(Take(preview, PreviewSize)) |->
                    [j \in 1..Len(cfg.displayFields) |->
                       Cell(preview[i], cfg.displayFields[j])]],
   summary |-> Some([total |-> total, fromCache |-> fromCache])]

\* What the page shows after displayPreview(result) has thrown at
\* result.preview.slice: the mapping badges are written and the table body
\* is cleared, the summary line is as it was (None when never written).
DisplayPreviewThrown(m, before) ==
  [mappingInfo |-> MappingInfo(m),
   tableBody |-> <<>>,
   summary |-> IF IsSome(before) THEN Val(before).summary ELSE None]

----------------------------------------------------------------------------
(* Saved configurations: the records of the backend collection, the connection
   forms of the store and the initial state of the store *)

\* A SavedImportConfig as GET /api/configs returns it.
ConfigRecord(id, moduleType, name, shopName, platform, url, path, key) ==
  [id |-> id, module_type |-> moduleType, config_name |-> name,
   shop_name |-> shopName, platform |-> platform, api_url |-> url,
   data_path |-> path, api_key |-> key]

\* The collection when the page loads: a configuration of another module, an
\* untagged legacy configuration and one of the module "orders".
InitialDb ==
  <<ConfigRecord(1, "stock", "shopB_lazada", "shopB", "lazada",
                 "https://src/stock", "", ""),
    ConfigRecord(2, NullVal, "legacy", NullVal, NullVal,
                 "https://src/legacy", "rows", "k0"),
    ConfigRecord(3, "orders", "shopC_shopee", "shopC", "shopee",
                 "https://src/c", "", "")>>

StoreForm(url, platform, shopName) ==
  [apiUrl |-> url, dataPath |-> "data.items", apiKey |-> "k1",
   apiPlatform |-> platform, apiShopName |-> shopName]

\* The connection forms the operator fills in before saving.
StoreFormValues ==
  {EmptyForm,
   StoreForm("https://src/orders", "shopee", "shopA"),
   StoreForm("https://src/orders", "shopee", ""),
   StoreForm("", "shopee", "shopA")}

\* The configsLoading / configsTableContainer / configsEmpty / configsError
\* blocks (shown is the set of those displayed: "loading", "table", "empty",
\* "error") and the rows of configsTableBody.
ConfigsTable(shown, rows) == [shown |-> shown, rows |-> rows]

\* A request to /api/configs: method is "LIST" (GET /api/configs), "GET",
\* "POST" or "DELETE"; fn is the function that awaits the fetch and caller
\* the handler that awaits fn ("" when nothing does); resp is None until
\* the backend has handled the request.
StoreRequest(rid, method, id, body, fn, caller) ==
  [rid |-> rid, method |-> method, id |-> id, body |-> body, fn |-> fn,
   caller |-> caller, resp |-> None]

\* The store after init(): no configuration listed yet and the
\* loadSavedConfigs() of init in flight.  The modal exists when the page has
\* the element and bootstrap is defined.
StoreInit ==
  /\ allConfigs = <<>>
  /\ manageConfigsModal \in {"null", "hidden"}
  /\ configsTable = ConfigsTable({}, <<>>)
  /\ configToDelete = None
  /\ deleteConfigContent = None
  /\ deleteConfigModalShown = FALSE
  /\ btnConfirmDeleteDisabled = FALSE
  /\ storeReqs = {StoreRequest(1, "LIST", 0, None, "loadSavedConfigs", "")}
  /\ db = InitialDb
  /\ nextDbId = Len(InitialDb) + 1
  /\ storeIssued = 1
  /\ saveLog = {}
  /\ deleted = {}
  /\ listFailed = FALSE
  /\ storeEvents = 0
  /\ viewConfigContent = None
  /\ viewConfigModalShown = FALSE

----------------------------------------------------------------------------
(* Initial state: the module after init(customConfig) *)

\* The preview side of the page after init().
PageInit ==
  /\ \E custom \in CustomConfigs : config = MergeConfig(custom)
  /\ apiData = None
  /\ mappingData = None
  /\ previewData = None
  /\ form \in FormValues
  /\ mappingForm = <<>>
  /\ previewModal \in {"null", "hidden"}
  /\ editMappingModal \in {"null", "hidden"}
  /\ previewLoading = FALSE
  /\ previewError = None
  /\ previewContent = FALSE
  /\ rendered = None
  /\ btnConfirmImportDisabled = FALSE
  /\ previewReqs = {}
  /\ importReqs = {}
  /\ location = None
  /\ nextId = 0
  /\ importsIssued = 0
  /\ sessionFrom = 0
  /\ mappingSavedAt = 0
  /\ remapRuns = 0
  /\ sessionSource = None
  /\ sessionOk = FALSE
  /\ dialog = Event("none", "none", 0)
  /\ clickIgnored = FALSE
  /\ events = 0

Init == PageInit /\ StoreInit

\* A click of the operator or an edit of the connection form, a change of a
\* select of the mapping form (no handler runs), and a step of the event loop
\* when a fetch settles.  Assigning window.location.href does not stop the
\* script: handlers and continuations keep running on the old document.
OperatorEvent == events < MaxEvents /\ events' = events + 1
OperatorEdit == UNCHANGED events
FetchSettles == UNCHANGED events

----------------------------------------------------------------------------
(* The operator types into the connection form *)

EditForm ==
  /\ OperatorEvent
  /\ \E f \in FormValues :
       /\ f /= form
       /\ form' = f
  /\ UNCHANGED <<clickIgnored, dialog, config, apiData, mappingData, previewData, mappingForm,
                 previewModal, editMappingModal, previewLoading,
                 previewError, previewContent, rendered,
                 btnConfirmImportDisabled, previewReqs, importReqs, location,
                 nextId, importsIssued, sessionFrom,
                 mappingSavedAt, remapRuns, sessionSource, sessionOk>>
  /\ UNCHANGED storeVars

\* The operator dismisses the preview modal (Bootstrap close control).
DismissPreviewModal ==
  /\ OperatorEvent
  /\ previewModal = "shown"
  /\ previewModal' = "hidden"
  /\ UNCHANGED <<clickIgnored, dialog, config, apiData, mappingData, previewData, form, mappingForm,
                 editMappingModal, previewLoading, previewError,
                 previewContent, rendered, btnConfirmImportDisabled,
                 previewReqs, importReqs, location, nextId, importsIssued,
                 sessionFrom,
                 mappingSavedAt, remapRuns, sessionSource, sessionOk>>
  /\ UNCHANGED storeVars

----------------------------------------------------------------------------
(* Preview/Cache Controller *)

\* fetchAndPreview(formData), up to the await of fetch.
fetchAndPreview(op, formData) ==
  IF previewModal = "null"
  THEN /\ dialog' = Event(op, "alert: preview modal not ready", 0)
       /\ UNCHANGED <<clickIgnored, config, apiData, mappingData, previewData, form,
                      mappingForm, previewModal, editMappingModal,
                      previewLoading, previewError, previewContent, rendered,
                      btnConfirmImportDisabled, previewReqs, importReqs,
                      location, nextId, importsIssued, sessionFrom,
                 mappingSavedAt, remapRuns, sessionSource, sessionOk>>
  ELSE /\ nextId < MaxPreviews
       /\ previewLoading' = TRUE
       /\ previewError' = None
       /\ previewContent' = FALSE
       /\ previewModal' = "shown"
       /\ nextId' = nextId + 1
       /\ previewReqs' = previewReqs \cup {[id |-> nextId + 1, body |-> formData]}
       /\ UNCHANGED <<clickIgnored, dialog, config, apiData, mappingData, previewData, form,
                      mappingForm, editMappingModal, rendered,
                      btnConfirmImportDisabled, importReqs, location,
                      importsIssued, sessionFrom,
                 mappingSavedAt, remapRuns, sessionSource, sessionOk>>

\* Click on btnFetchPreview; valid is form.checkValidity().
handleFetchPreview ==
  /\ OperatorEvent
  /\ \E valid \in BOOLEAN :
       IF ~valid
       THEN /\ UNCHANGED <<clickIgnored, dialog, config, apiData, mappingData, previewData, form,
                           mappingForm, previewModal, editMappingModal,
                           previewLoading, previewError, previewContent,
                           rendered, btnConfirmImportDisabled, previewReqs,
                           importReqs, location, nextId, importsIssued,
                           sessionFrom,
                 mappingSavedAt, remapRuns, sessionSource, sessionOk>>
       ELSE fetchAndPreview("handleFetchPreview", FormData(form, FALSE))
  /\ UNCHANGED storeVars

\* if (!formData.api_url)
CacheUrlMissing_never(formData) == FALSE
CacheUrlMissing(formData) == ~Truthy(formData.api_url)

\* Click on btnPreviewCache.
handlePreviewCache ==
  /\ OperatorEvent
  /\ IF CacheUrlMissing(FormData(form, TRUE))
     THEN /\ dialog' = Event("handlePreviewCache", "alert: api url required", 0)
          /\ UNCHANGED <<clickIgnored, config, apiData, mappingData, previewData, form,
                         mappingForm, previewModal, editMappingModal,
                         previewLoading, previewError, previewContent,
                         rendered, btnConfirmImportDisabled, previewReqs,
                         importReqs, location, nextId, importsIssued,
                         sessionFrom,
                 mappingSavedAt, remapRuns, sessionSource, sessionOk>>
     ELSE fetchAndPreview("handlePreviewCache", FormData(form, TRUE))
  /\ UNCHANGED storeVars

\* displayPreview(result) throws when result.mapping is null
\* (Object.entries, before anything is written) or result.preview is missing
\* (.slice, after the badges are written and the table body is cleared).
DisplayThrows(result) == ~IsSome(result.mapping) \/ ~IsSome(result.preview)

\* The rest of fetchAndPreview for request req, run when its fetch settles
\* with outcome o.
PreviewResponse(req, o) ==
  /\ FetchSettles
  /\ req \in previewReqs
  /\ previewReqs' = previewReqs \ {req}
  /\ IF o.kind = "ok"
     THEN /\ apiData' = o.result.data
          /\ mappingData' = o.result.mapping
          /\ previewData' = o.result.preview
          /\ sessionFrom' = req.id
          /\ sessionSource' = Some(req.body.api_url)
          /\ sessionOk' = ~DisplayThrows(o.result)
          /\ IF DisplayThrows(o.result)
             THEN /\ previewError' = Some(ErrorMessage(o, ""))
                  /\ previewLoading' = FALSE
                  /\ rendered' =
                       IF IsSome(o.result.mapping)
                       THEN Some(DisplayPreviewThrown(Val(o.result.mapping),
                                                      rendered))
                       ELSE rendered
                  /\ UNCHANGED previewContent
             ELSE /\ rendered' = Some(DisplayPreview(config, Val(o.result.mapping),
                                        Val(o.result.preview),
                                        o.result.total_rows,
                                        o.result.from_cache))
                  /\ previewLoading' = FALSE
                  /\ previewContent' = TRUE
                  /\ UNCHANGED previewError
     ELSE /\ previewError' = Some(ErrorMessage(o, "preview failed"))
          /\ previewLoading' = FALSE
          /\ UNCHANGED <<apiData, mappingData, previewData, sessionFrom,
                         sessionSource, sessionOk, rendered,
                         previewContent>>
  /\ remapRuns' = IF o.kind = "ok" THEN 0 ELSE remapRuns
  /\ UNCHANGED <<clickIgnored, dialog, config, form, mappingForm, previewModal,
                 editMappingModal, btnConfirmImportDisabled, importReqs,
                 location, nextId, importsIssued, mappingSavedAt>>
  /\ UNCHANGED storeVars

----------------------------------------------------------------------------
(* Mapping Editor *)

\* Object.keys(apiData[0]) when apiData has a first row, else [].
ApiFields(api) ==
  IF IsSome(api) /\ Len(Val(api)) > 0 THEN DOMAIN Val(api)[1] ELSE {}

\* The <select> built for one wmsField: its options besides the unset
\* option "", and the option the browser shows selected.
BuildSelect(key, m, fields) ==
  [options |-> fields,
   value |-> IF key \in DOMAIN m /\ m[key] \in fields THEN m[key] ELSE ""]

\* config.wmsFields.forEach(...): the selects appended to mappingFormFields.
MappingFormFields_mappedOnly(cfg, m, api) ==
  [k \in {kk \in WmsKeys(cfg) : kk \in DOMAIN m /\ Truthy(m[kk])} |->
     BuildSelect(k, m, ApiFields(api))]
MappingFormFields(cfg, m, api) ==
  [k \in WmsKeys(cfg) |-> BuildSelect(k, m, ApiFields(api))]

\* Click on btnEditMapping.  Without the modal, editMappingModal.show()
\* throws once the selects are built.
handleEditMapping ==
  /\ OperatorEvent
  /\ IF ~IsSome(mappingData)
     THEN /\ dialog' = Event("handleEditMapping", "alert: no mapping", 0)
          /\ UNCHANGED <<mappingForm, editMappingModal>>
     ELSE /\ mappingForm' = MappingFormFields(config, Val(mappingData), apiData)
          /\ editMappingModal' =
               IF editMappingModal = "null" THEN "null" ELSE "shown"
          /\ UNCHANGED dialog
  /\ UNCHANGED <<clickIgnored, config, apiData, mappingData, previewData,
                 form, previewModal, previewLoading, previewError,
                 previewContent, rendered, btnConfirmImportDisabled,
                 previewReqs, importReqs, location, nextId, importsIssued,
                 sessionFrom,
                 mappingSavedAt, remapRuns, sessionSource, sessionOk>>
  /\ UNCHANGED storeVars

\* The operator picks another option in one select of the mapping form.
ChangeSelect ==
  /\ OperatorEdit
  /\ \E k \in DOMAIN mappingForm :
       \E v \in mappingForm[k].options \cup {""} :
         /\ v /= mappingForm[k].value
         /\ mappingForm' = [mappingForm EXCEPT ![k].value = v]
  /\ UNCHANGED <<clickIgnored, dialog, config, apiData, mappingData, previewData, form,
                 previewModal, editMappingModal, previewLoading,
                 previewError, previewContent, rendered,
                 btnConfirmImportDisabled, previewReqs, importReqs, location,
                 nextId, importsIssued, sessionFrom,
                 mappingSavedAt, remapRuns, sessionSource, sessionOk>>
  /\ UNCHANGED storeVars

\* newMapping[key.replace('mapping_', '')] = value || null, over the entries
\* of the mapping form (one per select, named mapping_<wmsField>).
NewMapping(mform) == [k \in DOMAIN mform |-> OrNull(mform[k].value)]

\* Click on btnSaveMapping.  Without the modal, editMappingModal.hide()
\* throws after the reprocess; when previewData is still null after the
\* reprocess, previewData.length throws before displayPreview is entered.
handleSaveMapping ==
  /\ OperatorEvent
  /\ LET newMapping == NewMapping(mappingForm)
         newPreview == reprocessPreviewWithMapping(apiData, Some(newMapping),
                                                   previewData)
     IN /\ mappingData' = Some(newMapping)
        /\ previewData' = newPreview
        /\ editMappingModal' =
             IF editMappingModal = "null" THEN "null" ELSE "hidden"
        /\ IF editMappingModal /= "null" /\ IsSome(newPreview)
           THEN rendered' = Some(DisplayPreview(config, newMapping,
                                   Val(newPreview), Len(Val(newPreview)),
                                   TRUE))
           ELSE UNCHANGED rendered
  /\ mappingSavedAt' = IF editMappingModal = "shown" THEN nextId ELSE mappingSavedAt
  /\ remapRuns' =
       IF ~IsSome(apiData) THEN remapRuns
       ELSE IF remapRuns > 0 /\ mappingData' = mappingData
       THEN remapRuns + 1
       ELSE 1
  /\ UNCHANGED <<clickIgnored, dialog, config, apiData, form, mappingForm, previewModal,
                 previewLoading, previewError, previewContent,
                 btnConfirmImportDisabled, previewReqs, importReqs, location,
                 nextId, importsIssued, sessionFrom, sessionSource,
                 sessionOk>>
  /\ UNCHANGED storeVars

----------------------------------------------------------------------------
(* Import Committer *)

\* if (!apiData || !mappingData): an empty array and an empty object are
\* truthy.
NoImportData(api, m) == ~IsSome(api) \/ ~IsSome(m)

\* const totalRecords = fullMappedData.length, named in the confirm text.
TotalRecords_preview(full) == Len(Take(full, PreviewSize))
TotalRecords(full) == Len(full)

\* The body of POST {base}/import.
ImportBody(f, full, m) ==
  [platform |-> f.apiPlatform, shop_name |-> f.apiShopName,
   data |-> full, mapping |-> m]

\* Validate based on config: the alert of the first required field that is
\* empty, "ok" when none is.
ImportValidation_shopOnly(f, cfg) ==
  IF cfg.requireShopName /\ ~Truthy(f.apiShopName)
  THEN "alert: shop name required"
  ELSE "ok"
ImportValidation(f, cfg) ==
  IF cfg.requirePlatform /\ ~Truthy(f.apiPlatform)
  THEN "alert: platform required"
  ELSE IF cfg.requireShopName /\ ~Truthy(f.apiShopName)
  THEN "alert: shop name required"
  ELSE "ok"

\* btnConfirmImport.disabled = true, before the fetch.
DisableConfirmButton_skip == UNCHANGED btnConfirmImportDisabled
DisableConfirmButton == btnConfirmImportDisabled' = TRUE

\* Click on btnConfirmImport, up to the await of fetch; accept is the answer
\* to confirm().  A disabled button dispatches no click event.
handleConfirmImport ==
  /\ OperatorEvent
  /\ ~btnConfirmImportDisabled
  /\ IF NoImportData(apiData, mappingData)
     THEN /\ dialog' = Event("handleConfirmImport", "alert: no data", 0)
          /\ UNCHANGED <<btnConfirmImportDisabled, importReqs, importsIssued>>
     ELSE IF ImportValidation(form, config) /= "ok"
     THEN /\ dialog' = Event("handleConfirmImport",
                             ImportValidation(form, config), 0)
          /\ UNCHANGED <<btnConfirmImportDisabled, importReqs, importsIssued>>
     ELSE LET full == FullMappedData(Val(apiData), Val(mappingData))
              total == TotalRecords(full)
          IN \E accept \in BOOLEAN :
               IF ~accept
               THEN /\ dialog' = Event("handleConfirmImport",
                                          "confirm declined", total)
                    /\ UNCHANGED <<btnConfirmImportDisabled, importReqs,
                                   importsIssued>>
               ELSE /\ importsIssued < MaxImports
                    /\ DisableConfirmButton
                    /\ importsIssued' = importsIssued + 1
                    /\ importReqs' = importReqs \cup
                         {[id |-> importsIssued + 1,
                           body |-> ImportBody(form, full, Val(mappingData))]}
                    /\ dialog' = Event("handleConfirmImport",
                                          "confirm accepted", total)
  /\ UNCHANGED <<clickIgnored, config, apiData, mappingData, previewData,
                 form, mappingForm, previewModal, editMappingModal,
                 previewLoading, previewError, previewContent, rendered,
                 previewReqs, location, nextId, sessionFrom,
                 mappingSavedAt, remapRuns, sessionSource, sessionOk>>
  /\ UNCHANGED storeVars

\* Click on btnConfirmImport while it is disabled: no event, no handler.
ClickDisabledConfirmImport ==
  /\ OperatorEvent
  /\ btnConfirmImportDisabled
  /\ ~clickIgnored
  /\ clickIgnored' = TRUE
  /\ UNCHANGED <<dialog, config, apiData, mappingData, previewData, form, mappingForm,
                 previewModal, editMappingModal, previewLoading,
                 previewError, previewContent, rendered,
                 btnConfirmImportDisabled, previewReqs, importReqs, location,
                 nextId, importsIssued, sessionFrom,
                 mappingSavedAt, remapRuns, sessionSource, sessionOk>>
  /\ UNCHANGED storeVars

\* The redirect after a successful import.
RedirectTarget_dateFirst(cfg, o) ==
  IF Truthy(o.import_date) THEN [kind |-> "import_date", arg |-> o.import_date]
  ELSE IF Truthy(cfg.redirectUrl) THEN [kind |-> "redirectUrl", arg |-> cfg.redirectUrl]
  ELSE [kind |-> "home", arg |-> "/"]
RedirectTarget(cfg, o) ==
  IF Truthy(cfg.redirectUrl) THEN [kind |-> "redirectUrl", arg |-> cfg.redirectUrl]
  ELSE IF Truthy(o.import_date) THEN [kind |-> "import_date", arg |-> o.import_date]
  ELSE [kind |-> "home", arg |-> "/"]

\* The success path of the try block.
ImportSuccess_clear(req, o) ==
  /\ previewModal' = "hidden"
  /\ location' = Some(RedirectTarget(config, o))
  /\ dialog' = Event("handleConfirmImport", "alert: imported", o.imported)
  /\ apiData' = None
  /\ mappingData' = None
  /\ previewData' = None
ImportSuccess(req, o) ==
  /\ previewModal' = "hidden"
  /\ location' = Some(RedirectTarget(config, o))
  /\ dialog' = Event("handleConfirmImport", "alert: imported", o.imported)
  /\ UNCHANGED <<apiData, mappingData, previewData>>

\* The catch block: console.error and alert.
ImportCatch_reset(req, o) ==
  /\ dialog' = Event("handleConfirmImport", "alert: import error", 0)
  /\ apiData' = None
  /\ mappingData' = None
  /\ UNCHANGED <<previewData, previewModal, location>>
ImportCatch(req, o) ==
  /\ dialog' = Event("handleConfirmImport", "alert: import error", 0)
  /\ UNCHANGED <<apiData, mappingData, previewData, previewModal, location>>

\* The finally block: btnConfirmImport.disabled = false.
ImportFinally_skip == UNCHANGED btnConfirmImportDisabled
ImportFinally == btnConfirmImportDisabled' = FALSE

\* The rest of handleConfirmImport for request req, run when its fetch
\* settles with outcome o.
ImportResponse(req, o) ==
  /\ FetchSettles
  /\ req \in importReqs
  /\ importReqs' = importReqs \ {req}
  /\ IF o.kind = "ok" THEN ImportSuccess(req, o) ELSE ImportCatch(req, o)
  /\ ImportFinally
  /\ UNCHANGED <<clickIgnored, config, form, mappingForm,
                 editMappingModal, previewLoading, previewError,
                 previewContent, rendered, previewReqs, nextId, importsIssued,
                 sessionFrom,
                 mappingSavedAt, remapRuns, sessionSource, sessionOk>>
  /\ UNCHANGED storeVars

----------------------------------------------------------------------------
(* Specification *)

\* The preview side alone: the operator uses the connection form, the
\* preview surface and the mapping editor, and the preview and import
\* fetches settle.
ImportNext ==
  \/ EditForm
  \/ DismissPreviewModal
  \/ handleFetchPreview
  \/ handlePreviewCache
  \/ \E req \in previewReqs : \E o \in PreviewOutcomes : PreviewResponse(req, o)
  \/ handleEditMapping
  \/ ChangeSelect
  \/ handleSaveMapping
  \/ handleConfirmImport
  \/ ClickDisabledConfirmImport
  \/ \E req \in importReqs : \E o \in ImportOutcomes : ImportResponse(req, o)

----------------------------------------------------------------------------
(* The rows and the mappings of the sessions the Mapping Engine is applied
   to *)

MapKeys == {"order_id", "sku", "qty"}
MapTargets == {NullVal, "", "Order No", "Qty"}

\* Raw records: without fields, without Qty, and complete.
MapRows == {<<>>, RowNoQty("1"), Row("2", "1")}

\* A long batch whose rows differ, every third one without Qty.
PatternRow(i) ==
  IF i % 3 = 0 THEN RowNoQty(Digits[i]) ELSE Row(Digits[i], (IF i % 2 = 0 THEN "2" ELSE "1"))

MapRowSeqs ==
  UNION {[1..n -> MapRows] : n \in 0..MaxShortRows}
  \cup {[i \in 1..n |-> PatternRow(i)] : n \in (PreviewSize - 1)..MaxLongRows}

\* The key sets of the suggested mappings: none, one canonical field, the
\* canonical fields, and a key the module is not configured with.
MapKeySets == {{}, {"qty"}, {"order_id", "qty"}, {"order_id", "sku"}}

MapMappings == UNION {[ks -> MapTargets] : ks \in MapKeySets}

----------------------------------------------------------------------------
(* Saved Configuration Store: pure parts *)

\* result.configs.filter(cfg => !cfg.module_type ||
\*                              cfg.module_type === config.moduleType)
FilterConfigs_tagged(configs, moduleType) ==
  SelectSeq(configs, LAMBDA c : c.module_type = moduleType)
FilterConfigs(configs, moduleType) ==
  SelectSeq(configs,
            LAMBDA c : ~Truthy(c.module_type) \/ c.module_type = moduleType)

\* v || 'N/A' and v || ''
OrNA(v) == IF Truthy(v) THEN v ELSE "N/A"
OrEmpty(v) == IF Truthy(v) THEN v ELSE ""

\* populateConfigSelect: the options after the placeholder option.
populateConfigSelect(configs) ==
  [i \in 1..Len(configs) |->
     [value |-> configs[i].id,
      text |-> configs[i].config_name \o " (" \o OrNA(configs[i].platform)
               \o ")"]]

\* The options of the savedConfigSelect dropdown.
savedConfigSelect == populateConfigSelect(allConfigs)

\* The checks of handleSaveConfig before the request: the alert it shows, or
\* "ok".
SaveValidation_urlOnly(f, cfg) ==
  IF ~Truthy(f.apiUrl) THEN "alert: api url required" ELSE "ok"
SaveValidation(f, cfg) ==
  IF cfg.requireShopName /\ ~Truthy(f.apiShopName)
  THEN "alert: shop name required"
  ELSE IF cfg.requirePlatform /\ ~Truthy(f.apiPlatform)
  THEN "alert: platform required"
  ELSE IF ~Truthy(f.apiUrl) THEN "alert: api url required"
  ELSE "ok"

\* const configName = shopName && platform ? `${shopName}_${platform}`
\*                    : `${config.moduleType}_${new Date().getTime()}`
ConfigName(shopName, platform, moduleType, t) ==
  IF Truthy(shopName) /\ Truthy(platform)
  THEN shopName \o "_" \o platform
  ELSE moduleType \o "_" \o ToString(t)

\* The body of POST /api/configs.
SaveBody(f, cfg, t) ==
  [module_type |-> cfg.moduleType,
   config_name |-> ConfigName(f.apiShopName, f.apiPlatform, cfg.moduleType, t),
   shop_name |-> OrNull(f.apiShopName),
   platform |-> OrNull(f.apiPlatform),
   api_url |-> f.apiUrl,
   data_path |-> f.dataPath,
   api_key |-> f.apiKey]

\* The form after handleConfigSelect has filled it from a record.
FillForm(f, c) ==
  [f EXCEPT !.apiPlatform = OrEmpty(c.platform),
            !.apiUrl = OrEmpty(c.api_url),
            !.dataPath = OrEmpty(c.data_path),
            !.apiKey = OrEmpty(c.api_key)]

\* The texts handleDeleteConfig writes into the confirmation modal
\* (deleteConfigName, deleteConfigPlatform, deleteConfigUrl).
DeleteContent(c) ==
  [name |-> c.config_name, platform |-> OrNA(c.platform), url |-> c.api_url]

\* `/api/configs/${configToDelete.id}`
DeleteTarget_firstListed(c) == IF Len(allConfigs) > 0 THEN allConfigs[1].id ELSE c.id
DeleteTarget(c) == c.id

----------------------------------------------------------------------------
(* The backend collaborator of section 6 *)

DbIndex(d, id) == {i \in 1..Len(d) : d[i].id = id}
DbKeyIndex(d, body) ==
  {i \in 1..Len(d) : /\ d[i].module_type = body.module_type
                     /\ d[i].config_name = body.config_name}

\* POST /api/configs: upsert by (module_type, config_name).
Upsert(d, body, newId) ==
  LET rec(id) == ConfigRecord(id, body.module_type, body.config_name,
                              body.shop_name, body.platform, body.api_url,
                              body.data_path, body.api_key)
  IN IF DbKeyIndex(d, body) = {} THEN Append(d, rec(newId))
     ELSE [i \in 1..Len(d) |->
             IF i \in DbKeyIndex(d, body) THEN rec(d[i].id) ELSE d[i]]

\* The collection after the backend has handled req.
BackendDb(d, req, newId) ==
  CASE req.method = "POST" -> Upsert(d, Val(req.body), newId)
    [] req.method = "DELETE" -> SelectSeq(d, LAMBDA c : c.id /= req.id)
    [] OTHER -> d

\* The JSON body the backend answers req with.
BackendResponse(d, req) ==
  CASE req.method = "LIST" -> [success |-> TRUE, configs |-> d]
    [] req.method = "GET" ->
         IF DbIndex(d, req.id) = {} THEN [success |-> FALSE]
         ELSE [success |-> TRUE,
               config |-> d[CHOOSE i \in DbIndex(d, req.id) : TRUE]]
    [] req.method = "POST" ->
         [success |-> TRUE,
          message |-> IF DbKeyIndex(d, Val(req.body)) = {} THEN "saved"
                      ELSE "updated"]
    [] OTHER ->
         IF DbIndex(d, req.id) = {}
         THEN [success |-> FALSE, error |-> "not found"]
         ELSE [success |-> TRUE]

----------------------------------------------------------------------------
(* Saved Configuration Store: handlers *)

\* A click on a control of the manage-configs modal, and an edit, a save or
\* a selection in the connection form.
StoreEvent ==
  storeEvents < MaxStoreEvents /\ storeEvents' = storeEvents + 1
FormEvent ==
  storeEvents < MaxFormEvents /\ storeEvents' = storeEvents + 1

\* storeReqs after fn has called fetch.
Issue(reqs, method, id, body, fn, caller) ==
  reqs \cup {StoreRequest(storeIssued + 1, method, id, body, fn, caller)}

\* The operator types into the connection form.
StoreEditForm ==
  /\ FormEvent
  /\ \E f \in StoreFormValues :
       /\ f /= form
       /\ form' = f
  /\ UNCHANGED <<config, dialog, importVars, allConfigs, configsTable,
                 manageConfigsModal, configToDelete, deleteConfigContent,
                 deleteConfigModalShown, btnConfirmDeleteDisabled, storeReqs,
                 db, nextDbId, storeIssued, saveLog, deleted, listFailed>>
  /\ UNCHANGED viewVars

\* change on savedConfigSelect; configId 0 is the placeholder option "".
handleConfigSelect ==
  /\ FormEvent
  /\ \E configId \in {0} \cup {savedConfigSelect[i].value :
                                 i \in DOMAIN savedConfigSelect} :
       IF configId = 0
       THEN UNCHANGED <<storeReqs, storeIssued>>
       ELSE /\ storeReqs' = Issue(storeReqs, "GET", configId, None,
                                  "handleConfigSelect", "")
            /\ storeIssued' = storeIssued + 1
  /\ UNCHANGED <<config, form, dialog, importVars, allConfigs, configsTable,
                 manageConfigsModal, configToDelete, deleteConfigContent,
                 deleteConfigModalShown, btnConfirmDeleteDisabled, db,
                 nextDbId, saveLog, deleted, listFailed>>
  /\ UNCHANGED viewVars

\* Click on btnSaveConfig, up to the await of fetch; t is the wall-clock
\* reading of new Date().getTime().
handleSaveConfig ==
  /\ FormEvent
  /\ IF SaveValidation(form, config) /= "ok"
     THEN /\ dialog' = Event("handleSaveConfig",
                             SaveValidation(form, config), 0)
          /\ UNCHANGED <<storeReqs, storeIssued, saveLog>>
     ELSE \E t \in 1..MaxClock :
            LET body == SaveBody(form, config, t)
            IN /\ storeReqs' = Issue(storeReqs, "POST", 0, Some(body),
                                     "handleSaveConfig", "")
               /\ storeIssued' = storeIssued + 1
               /\ saveLog' = saveLog \cup
                    {[form |-> form, module_type |-> body.module_type,
                      config_name |-> body.config_name]}
               /\ UNCHANGED dialog
  /\ UNCHANGED <<config, form, importVars, allConfigs, configsTable,
                 manageConfigsModal, configToDelete, deleteConfigContent,
                 deleteConfigModalShown, btnConfirmDeleteDisabled, db,
                 nextDbId, deleted, listFailed>>
  /\ UNCHANGED viewVars

\* Click on btnManageConfigs: without the modal an alert and nothing else;
\* otherwise the modal is shown and loadConfigsTable runs up to the await of
\* fetch.
openManageConfigsModal ==
  /\ StoreEvent
  /\ IF manageConfigsModal = "null"
     THEN /\ dialog' = Event("openManageConfigsModal",
                             "alert: manage modal not ready", 0)
          /\ UNCHANGED <<manageConfigsModal, configsTable, storeReqs,
                         storeIssued>>
     ELSE /\ manageConfigsModal' = "shown"
          /\ configsTable' = ConfigsTable({"loading"}, configsTable.rows)
          /\ storeReqs' = Issue(storeReqs, "LIST", 0, None, "loadConfigsTable",
                                "openManageConfigsModal")
          /\ storeIssued' = storeIssued + 1
          /\ UNCHANGED dialog
  /\ UNCHANGED <<config, form, importVars, allConfigs,
                 configToDelete, deleteConfigContent, deleteConfigModalShown,
                 btnConfirmDeleteDisabled, db, nextDbId, saveLog,
                 deleted, listFailed>>
  /\ UNCHANGED viewVars

\* Click on the Delete button of a displayed table row, up to the await of
\* fetch.
handleDeleteConfig ==
  /\ StoreEvent
  /\ "table" \in configsTable.shown
  /\ \E i \in DOMAIN configsTable.rows :
       storeReqs' = Issue(storeReqs, "GET", configsTable.rows[i].id, None,
                          "handleDeleteConfig", "")
  /\ storeIssued' = storeIssued + 1
  /\ UNCHANGED <<config, form, dialog, importVars, allConfigs, configsTable,
                 manageConfigsModal, configToDelete, deleteConfigContent,
                 deleteConfigModalShown, btnConfirmDeleteDisabled, db,
                 nextDbId, saveLog, deleted, listFailed>>
  /\ UNCHANGED viewVars

\* The texts handleViewConfig writes into viewConfigContent: the API key is
\* shown masked.
ViewContent(c) ==
  [name |-> c.config_name, platform |-> OrNA(c.platform), url |-> c.api_url,
   data_path |-> IF Truthy(c.data_path) THEN c.data_path ELSE "-",
   api_key |-> IF Truthy(c.api_key) THEN "masked" ELSE "-"]

\* Click on the View button of a displayed table row, up to the await of
\* fetch.
handleViewConfig ==
  /\ StoreEvent
  /\ "table" \in configsTable.shown
  /\ \E i \in DOMAIN configsTable.rows :
       storeReqs' = Issue(storeReqs, "GET", configsTable.rows[i].id, None,
                          "handleViewConfig", "")
  /\ storeIssued' = storeIssued + 1
  /\ UNCHANGED <<config, form, dialog, importVars, allConfigs, configsTable,
                 manageConfigsModal, configToDelete, deleteConfigContent,
                 deleteConfigModalShown, btnConfirmDeleteDisabled, db,
                 nextDbId, saveLog, deleted, listFailed>>
  /\ UNCHANGED viewVars

\* The operator cancels the delete confirmation modal.
DismissDeleteModal ==
  /\ StoreEvent
  /\ deleteConfigModalShown
  /\ deleteConfigModalShown' = FALSE
  /\ UNCHANGED <<config, form, dialog, importVars, allConfigs, configsTable,
                 manageConfigsModal, configToDelete, deleteConfigContent,
                 btnConfirmDeleteDisabled, storeReqs, db, nextDbId, storeIssued, saveLog, deleted, listFailed>>
  /\ UNCHANGED viewVars

\* btnConfirmDelete.disabled = true, before the fetch.
DisableDeleteButton_skip == UNCHANGED btnConfirmDeleteDisabled
DisableDeleteButton == btnConfirmDeleteDisabled' = TRUE

\* Click on btnConfirmDelete, up to the await of fetch.  A disabled button
\* dispatches no click event.
confirmDeleteConfig ==
  /\ StoreEvent
  /\ ~btnConfirmDeleteDisabled
  /\ IF ~IsSome(configToDelete)
     THEN /\ dialog' = Event("confirmDeleteConfig", "alert: no config", 0)
          /\ UNCHANGED <<btnConfirmDeleteDisabled, storeReqs, storeIssued>>
     ELSE /\ DisableDeleteButton
          /\ storeReqs' = Issue(storeReqs, "DELETE",
                                DeleteTarget(Val(configToDelete)), None,
                                "confirmDeleteConfig", "")
          /\ storeIssued' = storeIssued + 1
          /\ UNCHANGED dialog
  /\ UNCHANGED <<config, form, importVars, allConfigs, configsTable,
                 manageConfigsModal, configToDelete, deleteConfigContent,
                 deleteConfigModalShown, db, nextDbId, saveLog, deleted,
                 listFailed>>
  /\ UNCHANGED viewVars

\* The backend handles a request.
Serve(req) ==
  /\ req \in storeReqs
  /\ ~IsSome(req.resp)
  /\ db' = BackendDb(db, req, nextDbId)
  /\ nextDbId' = IF Len(db') > Len(db) THEN nextDbId + 1 ELSE nextDbId
  /\ storeReqs' = (storeReqs \ {req})
                    \cup {[req EXCEPT !.resp = Some(BackendResponse(db, req))]}
  /\ UNCHANGED <<config, form, dialog, importVars, allConfigs, configsTable,
                 manageConfigsModal, configToDelete, deleteConfigContent,
                 deleteConfigModalShown, btnConfirmDeleteDisabled, storeIssued, saveLog, deleted, listFailed, storeEvents>>
  /\ UNCHANGED viewVars

----------------------------------------------------------------------------
(* Saved Configuration Store: continuations.  Each runs when the fetch of
   req settles: ok says the fetch resolved with the backend's answer
   (otherwise it rejected). *)

\* The rest of loadSavedConfigs and, when confirmDeleteConfig awaits it, the
\* rest of confirmDeleteConfig with its finally block.
EnableDeleteButton_skip == UNCHANGED btnConfirmDeleteDisabled
EnableDeleteButton == btnConfirmDeleteDisabled' = FALSE

loadSavedConfigsDone(req, ok) ==
  /\ IF ok /\ Val(req.resp).success
     THEN /\ allConfigs' = FilterConfigs(Val(req.resp).configs,
                                         config.moduleType)
          /\ UNCHANGED listFailed
     ELSE /\ listFailed' = TRUE
          /\ UNCHANGED allConfigs
  /\ IF req.caller = "confirmDeleteConfig"
     THEN /\ configToDelete' = None
          /\ EnableDeleteButton
     ELSE UNCHANGED <<configToDelete, btnConfirmDeleteDisabled>>
  /\ storeReqs' = storeReqs \ {req}
  /\ UNCHANGED <<form, dialog, configsTable, deleteConfigContent,
                 deleteConfigModalShown, storeIssued, deleted>>
  /\ UNCHANGED viewVars

\* The blocks displayed after a continuation of loadConfigsTable has hidden
\* configsLoading and displayed its own block: the blocks another load has
\* displayed meanwhile stay.
ShowBlock(shown, block) == (shown \ {"loading"}) \cup {block}

\* The rest of loadConfigsTable; confirmDeleteConfig goes on to
\* loadSavedConfigs.
loadConfigsTableDone(req, ok) ==
  /\ IF ok /\ Val(req.resp).success
     THEN /\ LET configs == FilterConfigs(Val(req.resp).configs,
                                          config.moduleType)
             IN configsTable' =
                  IF Len(configs) = 0
                  THEN ConfigsTable(ShowBlock(configsTable.shown, "empty"),
                                    configsTable.rows)
                  ELSE ConfigsTable(ShowBlock(configsTable.shown, "table"),
                                    configs)
          /\ UNCHANGED listFailed
     ELSE /\ configsTable' = ConfigsTable(ShowBlock(configsTable.shown, "error"),
                                         configsTable.rows)
          /\ listFailed' = TRUE
  /\ IF req.caller = "confirmDeleteConfig"
     THEN /\ storeReqs' = Issue(storeReqs \ {req}, "LIST", 0, None,
                                "loadSavedConfigs", "confirmDeleteConfig")
          /\ storeIssued' = storeIssued + 1
     ELSE /\ storeReqs' = storeReqs \ {req}
          /\ UNCHANGED storeIssued
  /\ UNCHANGED <<form, dialog, allConfigs, configToDelete,
                 deleteConfigContent, deleteConfigModalShown,
                 btnConfirmDeleteDisabled, deleted>>
  /\ UNCHANGED viewVars

\* The rest of handleConfigSelect.
handleConfigSelectDone(req, ok) ==
  /\ IF ~ok
     THEN /\ dialog' = Event("handleConfigSelect", "alert: load error", 0)
          /\ UNCHANGED form
     ELSE IF Val(req.resp).success
     THEN /\ form' = FillForm(form, Val(req.resp).config)
          /\ dialog' = Event("handleConfigSelect", "alert: loaded",
                             Val(req.resp).config.id)
     ELSE UNCHANGED <<form, dialog>>
  /\ storeReqs' = storeReqs \ {req}
  /\ UNCHANGED <<allConfigs, configsTable, configToDelete,
                 deleteConfigContent, deleteConfigModalShown,
                 btnConfirmDeleteDisabled, storeIssued, deleted, listFailed>>
  /\ UNCHANGED viewVars

\* The rest of handleDeleteConfig (phase 1 of delete).
handleDeleteConfigDone(req, ok) ==
  /\ IF ~ok
     THEN /\ dialog' = Event("handleDeleteConfig", "alert: prepare error", 0)
          /\ UNCHANGED <<configToDelete, deleteConfigContent,
                         deleteConfigModalShown>>
     ELSE IF Val(req.resp).success
     THEN /\ configToDelete' = Some(Val(req.resp).config)
          /\ deleteConfigContent' = Some(DeleteContent(Val(req.resp).config))
          /\ deleteConfigModalShown' = TRUE
          /\ UNCHANGED dialog
     ELSE UNCHANGED <<dialog, configToDelete, deleteConfigContent,
                      deleteConfigModalShown>>
  /\ storeReqs' = storeReqs \ {req}
  /\ UNCHANGED <<form, allConfigs, configsTable, btnConfirmDeleteDisabled,
                 storeIssued, deleted, listFailed>>
  /\ UNCHANGED viewVars

\* The rest of handleViewConfig.
handleViewConfigDone(req, ok) ==
  /\ IF ~ok
     THEN /\ dialog' = Event("handleViewConfig", "alert: view error", 0)
          /\ UNCHANGED viewVars
     ELSE IF Val(req.resp).success
     THEN /\ viewConfigContent' = Some(ViewContent(Val(req.resp).config))
          /\ viewConfigModalShown' = TRUE
          /\ UNCHANGED dialog
     ELSE UNCHANGED <<dialog, viewVars>>
  /\ storeReqs' = storeReqs \ {req}
  /\ UNCHANGED <<form, allConfigs, configsTable, configToDelete,
                 deleteConfigContent, deleteConfigModalShown,
                 btnConfirmDeleteDisabled, storeIssued, deleted, listFailed>>

\* The rest of handleSaveConfig up to the await of loadSavedConfigs.
handleSaveConfigDone(req, ok) ==
  /\ IF ok /\ Val(req.resp).success
     THEN /\ dialog' = Event("handleSaveConfig",
                             "alert: " \o Val(req.resp).message, 0)
          /\ storeReqs' = Issue(storeReqs \ {req}, "LIST", 0, None,
                                "loadSavedConfigs", "handleSaveConfig")
          /\ storeIssued' = storeIssued + 1
     ELSE /\ dialog' = Event("handleSaveConfig", "alert: save error", 0)
          /\ storeReqs' = storeReqs \ {req}
          /\ UNCHANGED storeIssued
  /\ UNCHANGED <<form, allConfigs, configsTable, configToDelete,
                 deleteConfigContent, deleteConfigModalShown,
                 btnConfirmDeleteDisabled, deleted, listFailed>>
  /\ UNCHANGED viewVars

\* The rest of confirmDeleteConfig (phase 2 of delete): on success up to the
\* await of loadConfigsTable, otherwise the catch and finally blocks.  The
\* success alert names configToDelete.config_name as it is when the fetch
\* settles (reading it from null throws into the catch block).
confirmDeleteConfigDone(req, ok) ==
  /\ IF ok /\ Val(req.resp).success /\ IsSome(configToDelete)
     THEN /\ dialog' = Event("confirmDeleteConfig", "alert: deleted",
                             Val(configToDelete).id)
          /\ deleteConfigModalShown' = FALSE
          /\ deleted' = deleted \cup {req.id}
          /\ configsTable' = ConfigsTable({"loading"}, configsTable.rows)
          /\ storeReqs' = Issue(storeReqs \ {req}, "LIST", 0, None,
                                "loadConfigsTable", "confirmDeleteConfig")
          /\ storeIssued' = storeIssued + 1
          /\ UNCHANGED btnConfirmDeleteDisabled
     ELSE /\ dialog' = Event("confirmDeleteConfig", "alert: delete error", 0)
          /\ EnableDeleteButton
          /\ storeReqs' = storeReqs \ {req}
          /\ deleted' = IF ok /\ Val(req.resp).success
                        THEN deleted \cup {req.id} ELSE deleted
          /\ UNCHANGED <<deleteConfigModalShown, configsTable, storeIssued>>
  /\ UNCHANGED <<form, allConfigs, configToDelete, deleteConfigContent,
                 listFailed>>
  /\ UNCHANGED viewVars

\* A fetch of the store settles and its continuation runs.
Receive(req, ok) ==
  /\ req \in storeReqs
  /\ ok => IsSome(req.resp)
  /\ CASE req.fn = "loadSavedConfigs" -> loadSavedConfigsDone(req, ok)
       [] req.fn = "loadConfigsTable" -> loadConfigsTableDone(req, ok)
       [] req.fn = "handleConfigSelect" -> handleConfigSelectDone(req, ok)
       [] req.fn = "handleDeleteConfig" -> handleDeleteConfigDone(req, ok)
       [] req.fn = "handleSaveConfig" -> handleSaveConfigDone(req, ok)
       [] req.fn = "handleViewConfig" -> handleViewConfigDone(req, ok)
       [] OTHER -> confirmDeleteConfigDone(req, ok)
  /\ UNCHANGED <<config, importVars, manageConfigsModal, db, nextDbId,
                 saveLog, storeEvents>>

----------------------------------------------------------------------------
(* Specification: the page after init(), every listener and every fetch *)

\* The operator has clicks left.
PageBudget == events + storeEvents < MaxPageEvents

Next ==
  \/ PageBudget /\ EditForm
  \/ PageBudget /\ DismissPreviewModal
  \/ PageBudget /\ handleFetchPreview
  \/ PageBudget /\ handlePreviewCache
  \/ \E req \in previewReqs : \E o \in PreviewOutcomes : PreviewResponse(req, o)
  \/ PageBudget /\ handleEditMapping
  \/ ChangeSelect
  \/ PageBudget /\ handleSaveMapping
  \/ PageBudget /\ handleConfirmImport
  \/ PageBudget /\ ClickDisabledConfirmImport
  \/ \E req \in importReqs : \E o \in ImportOutcomes : ImportResponse(req, o)
  \/ PageBudget /\ handleConfigSelect
  \/ PageBudget /\ handleSaveConfig
  \/ PageBudget /\ openManageConfigsModal
  \/ PageBudget /\ handleViewConfig
  \/ PageBudget /\ handleDeleteConfig
  \/ PageBudget /\ confirmDeleteConfig
  \/ \E req \in storeReqs : Serve(req)
  \/ \E req \in storeReqs : \E ok \in BOOLEAN : Receive(req, ok)

Spec == Init /\ [][Next]_vars

----------------------------------------------------------------------------
(* The preview side: the loadSavedConfigs() of init() has settled and the
   operator leaves the saved-configuration controls alone. *)

\* The store once the loadSavedConfigs() of init() has listed the saved
\* configurations of the module.
StoreLoaded ==
  /\ allConfigs = FilterConfigs(InitialDb, config.moduleType)
  /\ configsTable = ConfigsTable({}, <<>>)
  /\ configToDelete = None
  /\ deleteConfigContent = None
  /\ deleteConfigModalShown = FALSE
  /\ btnConfirmDeleteDisabled = FALSE
  /\ storeReqs = {}
  /\ db = InitialDb
  /\ nextDbId = Len(InitialDb) + 1
  /\ storeIssued = 1
  /\ saveLog = {}
  /\ deleted = {}
  /\ listFailed = FALSE
  /\ storeEvents = 0
  /\ viewConfigContent = None
  /\ viewConfigModalShown = FALSE

\* The page has every modal element and bootstrap is defined.
WholePage ==
  /\ previewModal = "hidden"
  /\ editMappingModal = "hidden"
  /\ manageConfigsModal = "hidden"

\* typeof bootstrap === 'undefined': init() creates no modal.
NoBootstrap ==
  /\ previewModal = "null"
  /\ editMappingModal = "null"
  /\ manageConfigsModal = "null"

ImportInit ==
  /\ PageInit
  /\ manageConfigsModal \in {"null", "hidden"}
  /\ WholePage \/ NoBootstrap
  /\ StoreLoaded

ImportSpec == ImportInit /\ [][ImportNext]_vars

\* Every import fetch eventually settles.
LiveSpec ==
  /\ ImportSpec
  /\ WF_vars(\E req \in importReqs : \E o \in ImportOutcomes : ImportResponse(req, o))

----------------------------------------------------------------------------
(* The Mapping Engine on bounded inputs: a preview of any rows with any
   suggested mapping has succeeded and is displayed; the operator edits and
   saves the mapping and commits. *)

\* The operator has clicks left.
MapBudget == events < MaxMapEvents

MapInit ==
  /\ manageConfigsModal = "hidden"
  /\ config = MergeConfig(CustomConfig(TRUE, FALSE, NullVal))
  /\ \E rows \in MapRowSeqs : \E m \in MapMappings :
       /\ apiData = Some(rows)
       /\ mappingData = Some(m)
       /\ previewData = PreviewResult(rows, m).preview
       /\ rendered = Some(DisplayPreview(config, m, Val(previewData),
                                         Len(rows), FALSE))
  /\ form = FormValue("https://src/orders", "shopee", "shopA")
  /\ mappingForm = <<>>
  /\ previewModal = "shown"
  /\ editMappingModal = "hidden"
  /\ previewLoading = FALSE
  /\ previewError = None
  /\ previewContent = TRUE
  /\ btnConfirmImportDisabled = FALSE
  /\ previewReqs = {}
  /\ importReqs = {}
  /\ location = None
  /\ nextId = 1
  /\ importsIssued = 0
  /\ sessionFrom = 1
  /\ mappingSavedAt = 0
  /\ remapRuns = 0
  /\ sessionSource = Some("https://src/orders")
  /\ sessionOk = TRUE
  /\ dialog = Event("none", "none", 0)
  /\ clickIgnored = FALSE
  /\ events = 0
  /\ StoreLoaded

MapNext ==
  \/ MapBudget /\ handleEditMapping
  \/ ChangeSelect
  \/ MapBudget /\ handleSaveMapping
  \/ MapBudget /\ handleConfirmImport
  \/ \E req \in importReqs : \E o \in ImportOutcomes : ImportResponse(req, o)

MapSpec == MapInit /\ [][MapNext]_vars

----------------------------------------------------------------------------
(* Specifications of the Saved Configuration Store: the page after init(),
   the operator using the controls of the connection form (ConfigSpec) or
   those of the manage-configs modal (ManageSpec) *)

ConfigInit ==
  /\ manageConfigsModal = "hidden"
  /\ \E custom \in CustomConfigs : config = MergeConfig(custom)
  /\ apiData = None
  /\ mappingData = None
  /\ previewData = None
  /\ form \in StoreFormValues
  /\ mappingForm = <<>>
  /\ previewModal = "hidden"
  /\ editMappingModal = "hidden"
  /\ previewLoading = FALSE
  /\ previewError = None
  /\ previewContent = FALSE
  /\ rendered = None
  /\ btnConfirmImportDisabled = FALSE
  /\ previewReqs = {}
  /\ importReqs = {}
  /\ location = None
  /\ nextId = 0
  /\ importsIssued = 0
  /\ sessionFrom = 0
  /\ mappingSavedAt = 0
  /\ remapRuns = 0
  /\ sessionSource = None
  /\ sessionOk = FALSE
  /\ dialog = Event("none", "none", 0)
  /\ clickIgnored = FALSE
  /\ events = 0
  /\ StoreInit

ConfigNext ==
  \/ StoreEditForm
  \/ handleConfigSelect
  \/ handleSaveConfig
  \/ \E req \in storeReqs : Serve(req)
  \/ \E req \in storeReqs : \E ok \in BOOLEAN : Receive(req, ok)

ConfigSpec == ConfigInit /\ [][ConfigNext]_vars

\* The page of the module "orders" with an empty connection form.
ManageInit ==
  /\ ConfigInit
  /\ config = MergeConfig(CustomConfig(TRUE, FALSE, NullVal))
  /\ form = EmptyForm

ManageNext ==
  \/ openManageConfigsModal
  \/ handleViewConfig
  \/ handleDeleteConfig
  \/ DismissDeleteModal
  \/ confirmDeleteConfig
  \/ \E req \in storeReqs : Serve(req)
  \/ \E req \in storeReqs : \E ok \in BOOLEAN : Receive(req, ok)

ManageSpec == ManageInit /\ [][ManageNext]_vars

\* Every fetch of the store eventually settles.
LiveManageSpec ==
  /\ ManageSpec
  /\ WF_vars(\E req \in storeReqs : \E ok \in BOOLEAN : Receive(req, ok))

----------------------------------------------------------------------------
(* The page with a session: a preview of the long batch has succeeded and is
   displayed, and the manage-configs modal is open with the table loaded;
   the operator uses any control of the page. *)

FrameInit ==
  /\ manageConfigsModal = "shown"
  /\ config = MergeConfig(CustomConfig(TRUE, FALSE, NullVal))
  /\ apiData = Some(RowsLong)
  /\ mappingData = Some(MappingOtherKeys)
  /\ previewData = PreviewResult(RowsLong, MappingOtherKeys).preview
  /\ form = StoreForm("https://src/orders", "shopee", "shopA")
  /\ mappingForm = <<>>
  /\ previewModal = "shown"
  /\ editMappingModal = "hidden"
  /\ previewLoading = FALSE
  /\ previewError = None
  /\ previewContent = TRUE
  /\ rendered = Some(DisplayPreview(config, MappingOtherKeys, Val(previewData),
                                    Len(RowsLong), FALSE))
  /\ btnConfirmImportDisabled = FALSE
  /\ previewReqs = {}
  /\ importReqs = {}
  /\ location = None
  /\ nextId = 1
  /\ importsIssued = 0
  /\ sessionFrom = 1
  /\ mappingSavedAt = 0
  /\ remapRuns = 0
  /\ sessionSource = Some("https://src/orders")
  /\ sessionOk = TRUE
  /\ dialog = Event("none", "none", 0)
  /\ clickIgnored = FALSE
  /\ events = 0
  /\ allConfigs = FilterConfigs(InitialDb, config.moduleType)
  /\ configsTable = ConfigsTable({"table"}, allConfigs)
  /\ configToDelete = None
  /\ deleteConfigContent = None
  /\ deleteConfigModalShown = FALSE
  /\ btnConfirmDeleteDisabled = FALSE
  /\ storeReqs = {}
  /\ db = InitialDb
  /\ nextDbId = Len(InitialDb) + 1
  /\ storeIssued = 2
  /\ saveLog = {}
  /\ deleted = {}
  /\ listFailed = FALSE
  /\ storeEvents = 0
  /\ viewConfigContent = None
  /\ viewConfigModalShown = FALSE

\* The operator has clicks left.
FrameBudget == events + storeEvents < MaxFrameEvents

FrameNext ==
  \/ FrameBudget /\ EditForm
  \/ FrameBudget /\ DismissPreviewModal
  \/ FrameBudget /\ handleFetchPreview
  \/ FrameBudget /\ handlePreviewCache
  \/ \E req \in previewReqs : \E o \in PreviewOutcomes : PreviewResponse(req, o)
  \/ FrameBudget /\ handleEditMapping
  \/ ChangeSelect
  \/ FrameBudget /\ handleSaveMapping
  \/ FrameBudget /\ handleConfirmImport
  \/ FrameBudget /\ ClickDisabledConfirmImport
  \/ \E req \in importReqs : \E o \in ImportOutcomes : ImportResponse(req, o)
  \/ FrameBudget /\ handleConfigSelect
  \/ FrameBudget /\ handleSaveConfig
  \/ FrameBudget /\ openManageConfigsModal
  \/ FrameBudget /\ handleViewConfig
  \/ FrameBudget /\ handleDeleteConfig
  \/ FrameBudget /\ confirmDeleteConfig
  \/ \E req \in storeReqs : Serve(req)
  \/ \E req \in storeReqs : \E ok \in BOOLEAN : Receive(req, ok)

FrameSpec == FrameInit /\ [][FrameNext]_vars

----------------------------------------------------------------------------
(* Claims *)

\* C1: stale-response discard.  Preview requests are numbered in the order they
\* are issued and sessionFrom is the request whose response wrote the session.
\* When the session stems from request B, the response of a request A issued
\* before B is discarded: no step that moves sessionFrom back to an earlier
\* request changes the session's fetched rows.
C1_StaleResponseDiscarded ==
  [][sessionFrom' < sessionFrom => apiData' = apiData]_vars

\* C2: single-flight commit.  While an import request is outstanding the
\* commit trigger is disabled, so a second click is ignored and at most one
\* POST {base}/import is outstanding.
C2_SingleFlightCommit ==
  /\ Cardinality(importReqs) <= 1
  /\ importReqs /= {} => btnConfirmImportDisabled

C2_SecondClickIgnored ==
  /\ clickIgnored
  /\ Cardinality(importReqs) = 1
  /\ importsIssued = 1

\* The session of section 4.4's precondition: no session, no mapping, or
\* zero raw rows.
EmptySession ==
  \/ ~IsSome(apiData)
  \/ ~IsSome(mappingData)
  \/ Len(Val(apiData)) = 0

\* C3: a commit invoked on an empty session (no rawRows, zero rawRows or no
\* mapping) issues no import request.
C3_NoImportFromEmptySession ==
  [][EmptySession => importReqs' \subseteq importReqs]_vars

\* C4: preview/commit consistency.  For the rawRows and the mapping of every
\* import request, remapping the first 10 raw rows gives the first 10 records
\* of the full remap, and the preview remap and the commit remap of the same
\* (rawRows, mapping) are the same records.
C4_PreviewCommitConsistent ==
  \A r \in importReqs :
    /\ reprocessPreviewWithMapping(Some(Take(Val(apiData), PreviewSize)),
                                   Some(r.body.mapping), None)
         = Some(Take(r.body.data, PreviewSize))
    /\ FullMappedData(Take(Val(apiData), PreviewSize), r.body.mapping)
         = Take(Val(reprocessPreviewWithMapping(apiData, Some(r.body.mapping),
                                                None)),
                PreviewSize)
    /\ (mappingSavedAt > 0 /\ mappingData = Some(r.body.mapping))
         => Val(previewData) = r.body.data

C4_BothRemapsApplied ==
  /\ mappingSavedAt > 0
  /\ \E r \in importReqs :
       /\ mappingData = Some(r.body.mapping)
       /\ previewData = Some(r.body.data)
       /\ Len(r.body.data) > PreviewSize
       /\ \E i \in 1..Len(r.body.data) : r.body.data[i] /= <<>>
       /\ \E i \in 1..Len(r.body.data) : "qty" \notin DOMAIN r.body.data[i]

\* C5: Mapping Engine result.  After the engine has run in a save of the
\* mapping, mapped record i has key k, with the value of raw record i under
\* f = mapping[k], exactly when f is set and the raw record has key f;
\* otherwise it has no key k.
C5_MappingEngineResult ==
  [][handleSaveMapping =>
       /\ IsSome(previewData')
       /\ Len(Val(previewData')) = Len(Val(apiData'))
       /\ \A i \in 1..Len(Val(apiData')) :
            LET row == Val(apiData')[i]
                mapped == Val(previewData')[i]
                m == Val(mappingData')
            IN /\ DOMAIN mapped \subseteq DOMAIN m
               /\ \A k \in MapKeys :
                    IF k \in DOMAIN m /\ Truthy(m[k]) /\ m[k] \in DOMAIN row
                    THEN k \in DOMAIN mapped /\ mapped[k] = row[m[k]]
                    ELSE k \notin DOMAIN mapped]_vars

C5_MappedAndOmitted ==
  /\ mappingSavedAt = 1
  /\ mappingData = Some(("order_id" :> NullVal) @@ ("qty" :> "Qty"))
  /\ apiData = Some(<<Row("2", "1"), RowNoQty("1")>>)
  /\ previewData = Some(<<("qty" :> "1"), <<>>>>)

\* A step in which a preview request fails: its fetch rejects, the status is
\* not 2xx, or handling the 2xx body throws.
PreviewFails ==
  \E req \in previewReqs : \E o \in PreviewOutcomes :
    /\ PreviewResponse(req, o)
    /\ o.kind /= "ok" \/ DisplayThrows(o.result)

\* C6: a failed preview request leaves rawRows, mapping and preview data as
\* they were and shows an error message.
C6_FailedPreviewKeepsSession ==
  [][PreviewFails => (UNCHANGED session /\ IsSome(previewError'))]_vars

\* A step in which an import request fails.
ImportFails ==
  \E req \in importReqs : \E o \in ImportOutcomes :
    /\ ImportResponse(req, o)
    /\ o.kind /= "ok"

\* C7: a failed commit leaves rawRows and currentMapping unchanged.
C7_FailedCommitKeepsSession ==
  [][ImportFails => UNCHANGED <<apiData, mappingData>>]_vars

C7_CommitRetried ==
  /\ importsIssued = 2
  /\ importReqs /= {}
  /\ dialog.out = "confirm accepted"
  /\ \E r \in importReqs : Len(r.body.data) > 0

\* C8: the commit trigger is disabled exactly while an import request is
\* outstanding, and a disabled trigger is eventually enabled again.
C8_TriggerFollowsRequest ==
  /\ [](btnConfirmImportDisabled <=> importReqs /= {})
  /\ (btnConfirmImportDisabled ~> ~btnConfirmImportDisabled)

C8_ReenabledAfterFailure ==
  /\ dialog.out = "alert: import error"
  /\ ~btnConfirmImportDisabled
  /\ importReqs = {}
  /\ importsIssued > 0

\* C9: the data of an import request is the Mapping Engine applied to all of
\* rawRows with the mapping sent in the same request, one record per raw row.
C9_ImportSendsFullRemap ==
  [][\A r \in importReqs' \ importReqs :
       /\ r.body.mapping = Val(mappingData)
       /\ Len(r.body.data) = Len(Val(apiData))
       /\ r.body.data = ApplyMapping(Val(apiData), r.body.mapping)]_vars

C9_EditedMappingFullBatch ==
  \E r \in importReqs :
    /\ Len(r.body.data) = MaxLongRows
    /\ Len(r.body.data) > PreviewSize
    /\ r.body.mapping = MappingFull
    /\ apiData = Some(RowsLong)

\* The program state: the module variables, the page and the requests in
\* flight; everything but the history variables, the backend and the last
\* dialog.
program == <<config, apiData, mappingData, previewData, form, mappingForm,
             previewModal, editMappingModal, previewLoading,
             previewError, previewContent, rendered,
             btnConfirmImportDisabled, previewReqs, importReqs, location,
             allConfigs, configsTable, manageConfigsModal, configToDelete,
             deleteConfigContent, deleteConfigModalShown,
             btnConfirmDeleteDisabled, storeReqs, viewConfigContent,
             viewConfigModalShown>>

\* C10: an import request is issued only by a step in which the operator
\* accepted a confirmation naming exactly the number of records of the
\* request's data; a declined confirmation issues nothing and changes no
\* state.
C10_ConfirmedCountIsSent ==
  /\ [][\A r \in importReqs' \ importReqs :
          /\ dialog'.out = "confirm accepted"
          /\ dialog'.n = Len(r.body.data)]_vars
  /\ [][(handleConfirmImport /\ dialog'.out = "confirm declined")
          => UNCHANGED program]_vars

C10_LongBatchConfirmed ==
  \E r \in importReqs :
    /\ dialog.out = "confirm accepted"
    /\ dialog.n = MaxLongRows
    /\ dialog.n > PreviewSize
    /\ Len(r.body.data) = dialog.n

\* C11: saving a mapping edit issues no request and leaves rawRows as they
\* were; currentMapping becomes the mapping entered in the mapping form (an
\* unset select gives no source field) and, when the session holds rawRows,
\* the preview data become the Mapping Engine applied to those rawRows.
C11_SaveMappingIsLocal ==
  [][handleSaveMapping =>
       /\ previewReqs' = previewReqs
       /\ importReqs' = importReqs
       /\ nextId' = nextId
       /\ apiData' = apiData
       /\ mappingData' = Some([k \in DOMAIN mappingForm |->
                                IF mappingForm[k].value = "" THEN NullVal
                                ELSE mappingForm[k].value])
       /\ IsSome(apiData) =>
            previewData' = Some(ApplyMapping(Val(apiData), Val(mappingData')))]_vars

C11_EditedMappingSaved ==
  /\ mappingSavedAt = 1
  /\ nextId = 1
  /\ previewReqs = {}
  /\ apiData = Some(RowsLong)
  /\ mappingData = Some(MappingFull)
  /\ previewData = Some(ApplyMapping(RowsLong, MappingFull))
  /\ editMappingModal = "hidden"

\* C12: a mapping edit of the active session, saved from the mapping editor
\* while a preview request is in flight, is still the currentMapping after
\* that request resolves: the step that settles a request issued before the
\* last save does not change the mapping.
C12_EditSurvivesFetch ==
  [][\A req \in previewReqs \ previewReqs' :
       (sessionFrom > 0 /\ req.id <= mappingSavedAt)
         => mappingData' = mappingData]_vars

\* C13: upsert idempotence.  Two save requests sent with the same form
\* values carry the same (module_type, config_name) key.
C13_SameFormSameKey ==
  \A a \in saveLog : \A b \in saveLog :
    a.form = b.form =>
      /\ a.module_type = b.module_type
      /\ a.config_name = b.config_name

\* C14: two-phase delete.  A DELETE request is issued only by a step in which
\* the operator confirms, phase 1 has stored a record X whose texts the
\* confirmation modal shows, and the request names X.id.
C14_DeleteOnlyConfirmedRecord ==
  [][\A r \in storeReqs' :
       (r.method = "DELETE" /\ r.rid > storeIssued) =>
         /\ confirmDeleteConfig
         /\ IsSome(configToDelete)
         /\ deleteConfigContent = Some(DeleteContent(Val(configToDelete)))
         /\ r.id = Val(configToDelete).id]_vars

C14_DeleteOfShownRecord ==
  \E r \in storeReqs :
    /\ r.method = "DELETE"
    /\ r.id = 3
    /\ configToDelete = Some(InitialDb[3])
    /\ deleteConfigContent =
         Some([name |-> "shopC_shopee", platform |-> "shopee",
               url |-> "https://src/c"])

\* The ids of the configurations the dropdown and the displayed table list.
ListedIds ==
  {allConfigs[i].id : i \in DOMAIN allConfigs}
  \cup (IF "table" \in configsTable.shown
        THEN {configsTable.rows[i].id : i \in DOMAIN configsTable.rows}
        ELSE {})

\* C15: once no request is outstanding (and no list request has failed), a
\* configuration whose delete succeeded is listed neither in the dropdown
\* nor in the table.
C15_DeletedNotListed ==
  (storeReqs = {} /\ ~listFailed) => deleted \cap ListedIds = {}

\* The DELETE requests in flight.
DeleteReqs == {r \in storeReqs : r.method = "DELETE"}

\* C16: single-flight delete.  At most one DELETE request is outstanding, the
\* delete-confirm trigger is disabled while one is, and a disabled trigger is
\* eventually enabled again.
C16_SingleFlightDelete ==
  /\ [](Cardinality(DeleteReqs) <= 1)
  /\ [](DeleteReqs /= {} => btnConfirmDeleteDisabled)
  /\ (btnConfirmDeleteDisabled ~> ~btnConfirmDeleteDisabled)

C16_ReenabledAfterDelete ==
  /\ deleted = {3}
  /\ storeReqs = {}
  /\ ~btnConfirmDeleteDisabled
  /\ dialog.out = "alert: deleted"

\* listed is what list(moduleType) yields for the backend's configs: the
\* configurations tagged moduleType or untagged, each once, in the backend's
\* order.
ListOf(listed, configs, moduleType) ==
  /\ \A k \in DOMAIN listed :
       \E i \in DOMAIN configs :
         /\ listed[k] = configs[i]
         /\ configs[i].module_type \in {moduleType, NullVal, ""}
  /\ \A i \in DOMAIN configs :
       configs[i].module_type \in {moduleType, NullVal, ""} =>
         \E k \in DOMAIN listed : listed[k] = configs[i]
  /\ \A k \in DOMAIN listed : \A l \in DOMAIN listed :
       k < l => \E i \in DOMAIN configs : \E j \in DOMAIN configs :
                  i < j /\ listed[k] = configs[i] /\ listed[l] = configs[j]

\* C17: when a list request resolves with the backend's configurations, the
\* dropdown (loadSavedConfigs) or the table (loadConfigsTable) lists exactly
\* those of the active module and the untagged ones, in the backend's order.
C17_ListIsModuleFilter ==
  [][\A req \in storeReqs :
       (req.method = "LIST" /\ Receive(req, TRUE)) =>
         IF req.fn = "loadSavedConfigs"
         THEN ListOf(allConfigs', Val(req.resp).configs, config.moduleType)
         ELSE \/ /\ "table" \in configsTable'.shown
                 /\ ListOf(configsTable'.rows, Val(req.resp).configs,
                           config.moduleType)
              \/ /\ "empty" \in configsTable'.shown
                 /\ ListOf(<<>>, Val(req.resp).configs, config.moduleType)]_vars

C17_BothListsFiltered ==
  /\ Len(db) = 3
  /\ allConfigs = <<InitialDb[2], InitialDb[3]>>
  /\ configsTable = ConfigsTable({"table"}, <<InitialDb[2], InitialDb[3]>>)

\* A required field of the candidate is missing.
MissingRequired(f, cfg) ==
  \/ f.apiUrl = ""
  \/ cfg.requirePlatform /\ f.apiPlatform = ""
  \/ cfg.requireShopName /\ f.apiShopName = ""

\* C18: a save with a missing required field shows a validation alert and
\* issues no request; the collection and the listed configurations stay as
\* they were.
C18_InvalidSaveIssuesNothing ==
  [][(handleSaveConfig /\ MissingRequired(form, config)) =>
       /\ storeReqs' = storeReqs
       /\ allConfigs' = allConfigs
       /\ db' = db
       /\ dialog'.op = "handleSaveConfig"
       /\ dialog'.out \in {"alert: api url required",
                           "alert: platform required",
                           "alert: shop name required"}]_vars

C18_UrlMissingRejected ==
  /\ dialog = Event("handleSaveConfig", "alert: api url required", 0)
  /\ form.apiUrl = ""
  /\ form.apiPlatform /= ""
  /\ form.apiShopName /= ""
  /\ storeIssued = 1
  /\ saveLog = {}

\* C19: when GET /api/configs/{id} answers {success: false}, the operator is
\* shown a message, and the form and the pending-delete record stay as they
\* were.
C19_AbsentRecordReported ==
  [][\A req \in storeReqs :
       (/\ req.method = "GET"
        /\ Receive(req, TRUE)
        /\ ~Val(req.resp).success) =>
         /\ dialog'.op = req.fn
         /\ dialog'.out \in {"alert: load error", "alert: prepare error"}
         /\ form' = form
         /\ configToDelete' = configToDelete]_vars

\* C20: save/load round trip.  After a stored configuration is loaded into
\* the form, the source URL, data path, credential, platform and shop name
\* of the form are the stored values (an absent value reads as empty).
C20_LoadRestoresConnection ==
  [][\A req \in storeReqs :
       (/\ req.fn = "handleConfigSelect"
        /\ Receive(req, TRUE)
        /\ Val(req.resp).success) =>
         LET c == Val(req.resp).config
         IN /\ form'.apiUrl = OrEmpty(c.api_url)
            /\ form'.dataPath = OrEmpty(c.data_path)
            /\ form'.apiKey = OrEmpty(c.api_key)
            /\ form'.apiPlatform = OrEmpty(c.platform)
            /\ form'.apiShopName = OrEmpty(c.shop_name)]_vars

\* The preview surface: the preview modal, its loading, error and content
\* blocks and what displayPreview rendered.
previewSurface == <<previewModal, previewLoading, previewError,
                    previewContent, rendered>>

\* C21: a preview from cache requested with an empty source URL is rejected
\* with a validation alert before any network call: no preview request is
\* issued and the session and the preview surface stay as they were.
C21_CacheNeedsUrl ==
  [][(handlePreviewCache /\ form.apiUrl = "") =>
       /\ dialog' = Event("handlePreviewCache", "alert: api url required", 0)
       /\ previewReqs' = previewReqs
       /\ nextId' = nextId
       /\ UNCHANGED session
       /\ UNCHANGED previewSurface]_vars

C21_CacheRejectedWithSession ==
  /\ dialog = Event("handlePreviewCache", "alert: api url required", 0)
  /\ form.apiUrl = ""
  /\ sessionFrom = 1
  /\ nextId = 1
  /\ previewReqs = {}
  /\ apiData = Some(RowsLong)
  /\ previewModal = "shown"
  /\ previewContent

\* A step in which the import request req resolves with the 2xx outcome o.
ImportSucceeds(req, o) == o.kind = "ok" /\ ImportResponse(req, o)

\* C22 as stated: after a successful commit the page navigates to the
\* destination built from import_date whenever the response carries one,
\* and to the configured redirectUrl only when it carries none.
C22_BatchIdentifierFirst ==
  [][\A req \in importReqs : \A o \in ImportOutcomes :
       ImportSucceeds(req, o) =>
         IF o.import_date /= NullVal
         THEN location' = Some([kind |-> "import_date", arg |-> o.import_date])
         ELSE config.redirectUrl /= NullVal =>
                location' = Some([kind |-> "redirectUrl",
                                  arg |-> config.redirectUrl])]_vars

\* C22 amended: after a successful commit the page navigates to the
\* configured redirectUrl whenever one is configured; only when none is
\* configured does it navigate to the destination built from import_date if
\* the response carries one, and to "/" otherwise.
C22_RedirectUrlFirst ==
  [][\A req \in importReqs : \A o \in ImportOutcomes :
       ImportSucceeds(req, o) =>
         IF config.redirectUrl /= NullVal
         THEN location' = Some([kind |-> "redirectUrl",
                                arg |-> config.redirectUrl])
         ELSE IF o.import_date /= NullVal
         THEN location' = Some([kind |-> "import_date", arg |-> o.import_date])
         ELSE location' = Some([kind |-> "home", arg |-> "/"])]_vars

\* The response that reports 1 imported record is the one that carries an
\* import_date.
C22_RedirectDespiteBatchId ==
  /\ config.redirectUrl = "/import/done"
  /\ location = Some([kind |-> "redirectUrl", arg |-> "/import/done"])
  /\ dialog = Event("handleConfirmImport", "alert: imported", 1)
  /\ previewModal = "hidden"

\* A step that opens a preview request for another source than the one the
\* session was fetched from.
OpensOtherSource ==
  /\ IsSome(sessionSource)
  /\ \E r \in previewReqs' \ previewReqs :
       r.body.api_url /= Val(sessionSource)

\* C23: a session that holds rawRows is destroyed when a preview request for
\* a different source is opened and when the preview is closed without
\* confirming: right after such a step the session holds no rawRows and no
\* mapping.
C23_SessionDestroyed ==
  [][(~EmptySession /\ (OpensOtherSource \/ DismissPreviewModal)) =>
       (apiData' = None /\ mappingData' = None)]_vars

\* C24: mapping determinism.  Every run of the Mapping Engine in a save of
\* the mapping leaves as preview data the mapped records the engine contract
\* of section 4.2 gives for the rawRows and the saved mapping, a value fixed by
\* these two alone: no configuration, no earlier preview data and no earlier
\* run enters it.  A run on the rawRows and the mapping of the run before
\* leaves the preview data of that run.
C24_RemapRepeatable ==
  [][(handleSaveMapping /\ IsSome(apiData)) =>
       /\ previewData' = Some(ApplyMapping(Val(apiData), Val(mappingData')))
       /\ (remapRuns > 0 /\ mappingData' = mappingData)
            => previewData' = previewData]_vars

C24_RemappedTwice ==
  /\ remapRuns = 2
  /\ mappingSavedAt = 1
  /\ editMappingModal = "hidden"
  /\ Len(Val(apiData)) > PreviewSize
  /\ mappingData = Some(MappingFull)
  /\ previewData = Some(ApplyMapping(Val(apiData), MappingFull))
  /\ Val(rendered).summary = Some([total |-> Len(Val(apiData)),
                                    fromCache |-> TRUE])

\* The field names the raw records of the remote sources carry.
SourceFields == {"Order No", "Qty", "Sku"}

\* m maps exactly the canonical fields the module is configured with, each
\* to a source field name or to nothing.
CanonicalMapping(m, cfg) ==
  /\ DOMAIN m = WmsKeys(cfg)
  /\ \A k \in DOMAIN m : m[k] = NullVal \/ m[k] \in SourceFields

\* C25: in every state in which the session holds rawRows it holds a
\* currentMapping whose domain is exactly the configured wmsFields keys and
\* whose values are source field names or absent, after a preview response
\* installed the suggested mapping as well as after a save of the mapping.
C25_MappingOverCanonicalFields ==
  IsSome(apiData) =>
    /\ IsSome(mappingData)
    /\ CanonicalMapping(Val(mappingData), config)

\* The Mapping Engine applied to the one-row batch <<row>>.
RemapOne(row, m) ==
  Val(reprocessPreviewWithMapping(Some(<<row>>), Some(m), None))[1]

\* C26: the Mapping Engine is total and order-preserving.  Run in a save of
\* the mapping on any rawRows (also none) and any saved mapping it yields
\* preview data, one record per raw record in the same order, record i being
\* what the engine makes of raw record i alone; and it leaves rawRows and
\* the mapping it was given as they were.
C26_EngineRowByRow ==
  [][handleSaveMapping =>
       /\ IsSome(previewData')
       /\ Len(Val(previewData')) = Len(Val(apiData))
       /\ \A i \in 1..Len(Val(apiData)) :
            Val(previewData')[i] = RemapOne(Val(apiData)[i], Val(mappingData'))
       /\ apiData' = apiData
       /\ mappingData' = Some(NewMapping(mappingForm))]_vars

C26_OrderKept ==
  /\ mappingSavedAt = 1
  /\ apiData = Some(<<Row("2", "1"), RowNoQty("1")>>)
  /\ mappingData = Some(("order_id" :> "Order No") @@ ("qty" :> "Qty"))
  /\ previewData = Some(<<("order_id" :> "2") @@ ("qty" :> "1"),
                          ("order_id" :> "1")>>)

\* The session holds no raw record.
NoRawRows == ~IsSome(apiData) \/ Len(Val(apiData)) = 0

\* C27: opening the mapping editor of a session that has a mapping shows the
\* editor (on a page that has the editor modal) with one select per
\* configured wmsFields key; the source-field
\* options of every select are the keys of the first raw record, and when
\* there is no raw record every select offers only the unset option.
C27_EditorOffersFirstRowKeys ==
  [][(handleEditMapping /\ IsSome(mappingData)) =>
       /\ editMappingModal /= "null" => editMappingModal' = "shown"
       /\ DOMAIN mappingForm' =
            {config.wmsFields[i] : i \in 1..Len(config.wmsFields)}
       /\ \A k \in DOMAIN mappingForm' :
            IF NoRawRows
            THEN mappingForm'[k] = [options |-> {}, value |-> ""]
            ELSE mappingForm'[k].options = DOMAIN Val(apiData)[1]]_vars

C27_EditorOpenWithoutRows ==
  /\ editMappingModal = "shown"
  /\ apiData = Some(<<>>)
  /\ mappingData = Some(MappingNone)
  /\ mappingForm = [k \in {"order_id", "qty"} |->
                      [options |-> {}, value |-> ""]]

\* C28: the commit and every operation of the Saved Configuration Store
\* (list, save, load into the form, view, both phases of delete) leave
\* rawRows, currentMapping and the preview data as they were.
C28_SessionFrame ==
  [][(\/ handleConfirmImport
      \/ ClickDisabledConfirmImport
      \/ \E req \in importReqs : \E o \in ImportOutcomes : ImportResponse(req, o)
      \/ handleConfigSelect
      \/ handleSaveConfig
      \/ openManageConfigsModal
      \/ handleViewConfig
      \/ handleDeleteConfig
      \/ confirmDeleteConfig
      \/ \E req \in storeReqs : Serve(req)
      \/ \E req \in storeReqs : \E ok \in BOOLEAN : Receive(req, ok))
       => UNCHANGED session]_vars

C28_SessionKeptAfterDelete ==
  /\ deleted /= {}
  /\ storeReqs = {}
  /\ configsTable.shown = {"table"}
  /\ apiData = Some(RowsLong)
  /\ mappingData = Some(MappingOtherKeys)
  /\ previewData = Some(Take(ApplyMapping(RowsLong, MappingOtherKeys), PreviewSize))

\* A preview, import or configuration request is outstanding.
Suspended == previewReqs /= {} \/ importReqs /= {} \/ storeReqs /= {}

\* C29: at every suspension point after a preview response has written the
\* session, rawRows, mapping and preview data are all set, and the preview
\* data are the preview of the response that brought the rawRows (the first
\* rows remapped) or the remap of all of them.
C29_SessionWhole ==
  (Suspended /\ sessionFrom > 0) =>
    /\ IsSome(apiData)
    /\ IsSome(mappingData)
    /\ IsSome(previewData)
    /\ previewData \in
         {Some(Take(ApplyMapping(Val(apiData), Val(mappingData)), PreviewSize)),
          Some(ApplyMapping(Val(apiData), Val(mappingData)))}

\* C30: every import request is issued after a successful preview response
\* and carries the mapped form of the rawRows that the most recently applied
\* successful preview response brought: never rows of a preview whose
\* handling failed.
C30_ImportAfterGoodPreview ==
  [][\A r \in importReqs' \ importReqs :
       /\ sessionFrom > 0
       /\ sessionOk
       /\ r.body.data = ApplyMapping(Val(apiData), r.body.mapping)]_vars

\* C31: whenever the delete confirmation is showing, the pending-delete
\* record is set and is the record whose texts the confirmation shows; and
\* the success message after a DELETE names the record whose id was sent.
C31_ConfirmDeletesNamedRecord ==
  /\ [](deleteConfigModalShown =>
          /\ IsSome(configToDelete)
          /\ deleteConfigContent = Some(DeleteContent(Val(configToDelete))))
  /\ [][\A req \in storeReqs :
          (/\ req.method = "DELETE"
           /\ Receive(req, TRUE)
           /\ Val(req.resp).success) =>
            dialog' = Event("confirmDeleteConfig", "alert: deleted", req.id)]_vars

\* C32: saving the Mapping Editor with every select as the editor built it
\* from the current mapping leaves the mapping unchanged (same keys, same
\* value for every key).
C32_OpenSaveKeepsMapping ==
  [][(/\ editMappingModal = "shown"
      /\ IsSome(mappingData)
      /\ mappingForm = MappingFormFields(config, Val(mappingData), apiData)
      /\ handleSaveMapping) => mappingData' = mappingData]_vars

\* C33: in the preview surface the error message and the preview content
\* are never visible at the same time.
C33_ErrorOrContent == ~(IsSome(previewError) /\ previewContent)

\* C34: the preview loading indicator is visible exactly while at least one
\* preview request is outstanding: shown from the issue of a request, kept
\* while any request is outstanding, hidden once every request has settled.
C34_LoadingWhileOutstanding == previewLoading <=> previewReqs /= {}

\* A required field of the import is empty in the connection form.
RequiredMissing ==
  \/ config.requirePlatform /\ form.apiPlatform = ""
  \/ config.requireShopName /\ form.apiShopName = ""

\* C35: no import request is issued with an empty platform when
\* requirePlatform is set, nor with an empty shop name when requireShopName
\* is set; a click on Confirm with a session and such a form alerts without
\* asking for confirmation, issues no request and leaves the trigger enabled.
C35_RequiredFieldsGuardImport ==
  [][/\ \A req \in importReqs' \ importReqs :
          /\ config.requirePlatform => req.body.platform /= ""
          /\ config.requireShopName => req.body.shop_name /= ""
     /\ (/\ handleConfirmImport
         /\ ~NoImportData(apiData, mappingData)
         /\ RequiredMissing) =>
           /\ dialog'.out \in {"alert: platform required",
                               "alert: shop name required"}
           /\ importReqs' = importReqs
           /\ ~btnConfirmImportDisabled']_vars

\* A commit was stopped for the missing platform, with rows in the session.
C35_StoppedForPlatform ==
  /\ dialog = Event("handleConfirmImport", "alert: platform required", 0)
  /\ config.requirePlatform
  /\ form.apiPlatform = ""
  /\ ~NoImportData(apiData, mappingData)
  /\ Len(Val(apiData)) > 0
  /\ importReqs = {}
  /\ ~btnConfirmImportDisabled

====
